---- MODULE Spec2Model ----
(***************************************************************************)
(* Model of src/download_files.py: the scoped breadth-first crawl of       *)
(* crawl_and_download together with the pure scope predicates it uses.     *)
(*                                                                         *)
(* A URL is modelled in its parsed form, the record urlparse() yields:     *)
(* netloc and path, the path a sequence of one-character strings.  The     *)
(* web is the environment: what a page answers, what a HEAD probe reports  *)
(* and whether a request fails are chosen when the request is made.        *)
(***************************************************************************)
EXTENDS Naturals, Integers, Sequences, FiniteSets, TLC

\* ------------------------------------------------------------------ bounds
MaxLinks == 2          \* most links one fetched page carries
MaxDepthBound == 2     \* max_depth is drawn from 0..MaxDepthBound
MaxPathLen == 3        \* longest path given to the scope predicates alone
MaxNameLen == 2        \* longest varied part of a name given to sanitize_filename
MaxDownloads == 3      \* most download_pdf calls followed on their own

\* ------------------------------------------------------- strings as tuples
StartsWith(s, p) ==
  /\ Len(p) <= Len(s)
  /\ SubSeq(s, 1, Len(p)) = p

EndsWith(s, p) ==
  /\ Len(p) <= Len(s)
  /\ SubSeq(s, Len(s) - Len(p) + 1, Len(s)) = p

LowerChar(c) ==
  CASE c = "P" -> "p"
    [] c = "D" -> "d"
    [] c = "F" -> "f"
    [] OTHER -> c

Lower(s) == [i \in DOMAIN s |-> LowerChar(s[i])]

\* ------------------------------------------------------------ file names
\* the characters the pattern [^\w\-.()+\s] leaves alone: \w, here the
\* letters, digits and underscore the model's names are written with,
WordChars ==
  {"a", "b", "c", "d", "e", "f", "m", "n", "o", "p", "r", "t", "u", "x",
   "D", "F", "P", "_",
   "0", "1", "2", "3", "4", "5", "6", "7", "8", "9"}

\* and hyphen, period, parentheses, plus and white space
KeptChars == WordChars \cup {"-", ".", "(", ")", "+", " "}

\* name[-180:] is taken of a longer name
max_name_len == 180

\* the cut taken one character too late
sanitize_filename_late(name) ==
  LET n == [i \in DOMAIN name |->
              IF name[i] \in KeptChars THEN name[i] ELSE "_"]
  IN IF Len(n) > max_name_len + 1
     THEN SubSeq(n, Len(n) - max_name_len + 1, Len(n))
     ELSE n

sanitize_filename(name) ==
  LET n == [i \in DOMAIN name |->
              IF name[i] \in KeptChars THEN name[i] ELSE "_"]
  IN IF Len(n) > max_name_len
     THEN SubSeq(n, Len(n) - max_name_len + 1, Len(n))
     ELSE n

\* os.path.basename of a URL path: what follows its last slash
basename(path) ==
  LET slashes == {i \in DOMAIN path : path[i] = "/"}
      last == IF slashes = {} THEN 0
              ELSE CHOOSE i \in slashes : \A j \in slashes : j <= i
  IN SubSeq(path, last + 1, Len(path))

document_pdf == <<"d", "o", "c", "u", "m", "e", "n", "t", ".", "p", "d", "f">>

\* the file name download_pdf derives from a URL path
fname(path) ==
  sanitize_filename(IF basename(path) = <<>> THEN document_pdf
                    ELSE basename(path))

\* os.path.splitext of a file name: the extension begins at the last period,
\* unless only periods come before it
splitext(name) ==
  LET dots == {i \in DOMAIN name : name[i] = "."}
      d == IF dots = {} THEN 0 ELSE CHOOSE i \in dots : \A j \in dots : j <= i
      has == d > 0 /\ \E j \in 1..(d - 1) : name[j] # "."
  IN IF has THEN <<SubSeq(name, 1, d - 1), SubSeq(name, d, Len(name))>>
     ELSE <<name, <<>> >>

Digit(k) == <<"0", "1", "2", "3", "4", "5", "6", "7", "8", "9">>[k + 1]

RECURSIVE Numeral(_)
Numeral(i) ==
  IF i < 10 THEN <<Digit(i)>> ELSE Numeral(i \div 10) \o <<Digit(i % 10)>>

\* f"{base} ({i}){ext}"
candidate(name, i) ==
  splitext(name)[1] \o <<" ", "(">> \o Numeral(i) \o <<")">> \o splitext(name)[2]

\* the existence test left out
ensure_unique_path_unchecked(fs, name) == name

\* the name itself when no such file exists, else the first free candidate
ensure_unique_path(fs, name) ==
  IF name \notin fs THEN name
  ELSE LET i == CHOOSE i \in 1..(Cardinality(fs) + 1) :
                  /\ candidate(name, i) \notin fs
                  /\ \A j \in 1..(i - 1) : candidate(name, j) \in fs
       IN candidate(name, i)

\* ------------------------------------------------------------ the URLs
Url(n, p) == [netloc |-> n, path |-> p]

start   == Url("site",  <<"/", "r">>)
PageP   == Url("site",  <<"/", "r", "/", "p">>)
PageO   == Url("site",  <<"/", "o">>)
DocA    == Url("site",  <<"/", "r", "/", "a", ".", "P", "d", "f">>)
DocE    == Url("other", <<"/", "e">>)

URLs == {start, PageP, PageO, DocA, DocE}

\* documents whose names meet: the same name on another host and in another
\* directory, two names that differ before and agree after sanitizing, and
\* a path without a last segment
DocA2   == Url("other", <<"/", "a", ".", "P", "d", "f">>)
DocC    == Url("site",  <<"/", "o", "/", "a", ":", "b">>)
DocU    == Url("site",  <<"/", "o", "/", "a", "_", "b">>)
DocRoot == Url("site",  <<"/", "r", "/">>)

DlURLs == {DocA, DocA2, DocC, DocU, DocRoot}

\* the site of the end-to-end scenario: the seed links to a.Pdf, to the page
\* PageP and to PageX on another host, and PageP links to b.pdf
DocB  == Url("site",  <<"/", "r", "/", "b", ".", "p", "d", "f">>)
PageX == Url("other", <<"/", "x">>)

ScenarioLinks(u) ==
  IF u = start THEN {DocA, PageP, PageX}
  ELSE IF u = PageP THEN {DocB}
  ELSE {}

\* every URL the per-URL records are kept for
AllURLs == URLs \cup DlURLs \cup {DocB, PageX}

\* the files an earlier run can have left in the output directory
OldNames == {fname(DocA.path), candidate(fname(DocA.path), 1)}

\* URLs whose server answers a HEAD with Content-Type application/pdf
ServesPdf == {DocA, DocE}

\* URLs a robots.txt of the site may disallow
RobotsCandidates == {PageP, DocA}

\* what rp.read() meets: a robots.txt that parses, with nothing disallowed
\* and no Crawl-delay or with something disallowed and a Crawl-delay of one
\* second (times are in tenths of a second), or an exception of the fetch
\* or of the decoding
RobotsOutcomes ==
  {[kind |-> "parsed", disallow |-> {}, crawl_delay |-> <<>>],
   [kind |-> "parsed", disallow |-> RobotsCandidates, crawl_delay |-> <<10>>],
   [kind |-> "raised", disallow |-> {}, crawl_delay |-> <<>>]}

\* the parser load_robots returns: the except clause passes, and a parser
\* whose read() raised has read nothing (its last_checked stays 0)
load_robots(o) ==
  [read |-> o.kind = "parsed", disallow |-> o.disallow,
   crawl_delay |-> o.crawl_delay]

\* the policies load_robots can return
RobotPolicies == {load_robots(o) : o \in RobotsOutcomes}

\* rp.crawl_delay answers None when there is none or nothing was read
robots_crawl_delay(p) ==
  IF p.read /\ p.crawl_delay # <<>> THEN p.crawl_delay[1] ELSE 0

\* the delay argument at its default of half a second
delay == 5

Max(a, b) == IF a >= b THEN a ELSE b

\* the link sets extract_links can return for one page
LinkSets == {L \in SUBSET URLs : Cardinality(L) <= MaxLinks}

\* ------------------------------------------------------ scope predicates
is_same_site(url, base) == url.netloc = base.netloc

is_under_base_path(url, base) ==
  /\ url.netloc = base.netloc
  /\ StartsWith(url.path, base.path)

looks_like_pdf(url) == EndsWith(Lower(url.path), <<".", "p", "d", "f">>)

\* ------------------------------------------------------------- the state
VARIABLES
  max_depth,       \* argument of crawl_and_download
  same_path_only,  \* argument of crawl_and_download
  rp,              \* the robots policy load_robots returned
  pc,              \* position: "loop", "links", "done" or "crashed"
  seen_pages, queued, found_pdfs, downloaded, checked_links,
  url, depth,      \* the entry the while loop popped last
  links,           \* the links of the page the for loop has yet to take
  pops,            \* per URL, how often popleft returned it
  seen_adds,       \* per URL, how often seen_pages.add was called with it
  page_gets,       \* per URL, the requests fetch_html made: depth and outcome
  head_probes,     \* the URLs head_is_pdf requested
  doc_gets,        \* per URL, the requests download_pdf made: depth and outcome
  pdf_hits,        \* per URL, the pages on which it reached the found_pdfs test
  last_net,        \* "idle", "request" or "sleep": the last of the two
  unpaced,         \* a request followed a request with no sleep between
  summary,         \* the counts the summary printed, once it has
  arg_url, arg_base, result,  \* a scope predicate applied on its own
  http_method,     \* one session.get or session.head: its method,
  http_script,     \*   what the server answers to its successive attempts,
  http_log,        \*   the answers its attempts have met,
  retries_left,    \*   the Retry object's total,
  http_result,     \*   and "idle", "pending", "ok" or "error"
  name_in, name_out, name_again,  \* sanitize_filename applied once and twice
  files,           \* the names of the files in the output directory
  old_files,       \* those that were there when the run began
  site             \* who answers: "any" site, or the "scenario" site

vars == <<max_depth, same_path_only, rp, pc, seen_pages, queued, found_pdfs,
          downloaded, checked_links, url, depth, links, pops, seen_adds,
          page_gets, head_probes, doc_gets, pdf_hits, last_net, unpaced,
          summary, arg_url, arg_base, result,
          http_method, http_script, http_log, retries_left, http_result,
          name_in, name_out, name_again, files, old_files, site>>

params == <<max_depth, same_path_only, rp, site>>
pure == <<arg_url, arg_base, result>>
http == <<http_method, http_script, http_log, retries_left, http_result>>
naming == <<name_in, name_out, name_again>>

NoSummary == [pages |-> 0, links |-> 0, pdfs |-> 0, downloaded |-> 0,
              printed |-> FALSE]

CrawlFresh ==
  /\ seen_pages = {}
  /\ queued = << <<start, 0>> >>
  /\ found_pdfs = {}
  /\ downloaded = 0
  /\ checked_links = 0
  /\ url = start
  /\ depth = 0
  /\ links = {}
  /\ pops = [u \in AllURLs |-> 0]
  /\ seen_adds = [u \in AllURLs |-> 0]
  /\ page_gets = [u \in AllURLs |-> <<>>]
  /\ head_probes = {}
  /\ doc_gets = [u \in AllURLs |-> <<>>]
  /\ pdf_hits = [u \in AllURLs |-> {}]
  /\ last_net = "idle"
  /\ unpaced = FALSE
  /\ summary = NoSummary

\* crawl_and_download is at its while loop, the output directory empty
CrawlStart ==
  /\ pc = "loop"
  /\ CrawlFresh
  /\ files = {}
  /\ old_files = {}

\* no scope predicate is applied on its own
PureIdle ==
  /\ arg_url = start
  /\ arg_base = start
  /\ result = "unset"

\* no request is followed through its attempts
HttpIdle ==
  /\ http_method = "GET"
  /\ http_script = <<>>
  /\ http_log = <<>>
  /\ retries_left = 0
  /\ http_result = "idle"

\* sanitize_filename is not applied on its own
NamingIdle ==
  /\ name_in = <<>>
  /\ name_out = <<"?">>
  /\ name_again = <<"?">>

Init ==
  /\ max_depth \in 0..MaxDepthBound
  /\ same_path_only \in BOOLEAN
  /\ rp \in RobotPolicies
  /\ site = "any"
  /\ CrawlStart
  /\ PureIdle
  /\ HttpIdle
  /\ NamingIdle

\* ------------------------------------------------------- the crawl's gates
\* rp.can_fetch answers False for every URL until a robots.txt was read
allowed_by_robots(u) == rp.read /\ u \notin rp.disallow

enforced_delay == Max(delay, robots_crawl_delay(rp))

\* the visited test forgotten
already_seen_never(u) == FALSE

already_seen(u) == u \in seen_pages

page_in_scope(u) ==
  /\ is_same_site(u, start)
  /\ (~same_path_only) \/ is_under_base_path(u, start)

\* the found test forgotten
is_new_pdf_always(link) == TRUE

is_new_pdf(link) == link \notin found_pdfs

\* the depth test off by one
depth_permits_inclusive(d) == d <= max_depth

depth_permits(d) == d < max_depth

may_enqueue(link, d) ==
  /\ depth_permits(d)
  /\ is_same_site(link, start)
  /\ (~same_path_only) \/ is_under_base_path(link, start)
  /\ link \notin seen_pages

\* ----------------------------------------------- what the network answers
\* fetch_html: the page's links, or a RequestException
FetchOutcomes ==
  {[ok |-> FALSE, links |-> {}]} \cup {[ok |-> TRUE, links |-> L] : L \in LinkSets}

\* what a GET of the page u meets
PageOutcomes(u) ==
  IF site = "scenario"
  THEN {[ok |-> FALSE, links |-> {}], [ok |-> TRUE, links |-> ScenarioLinks(u)]}
  ELSE FetchOutcomes

\* head_is_pdf: the Content-Type, or a RequestException
HeadOutcomes(link) ==
  IF link \in ServesPdf THEN {"pdf", "fail"} ELSE {"html", "fail"}

\* the new entry put in front
frontier_appendleft(q, e) == <<e>> \o q

\* queue.append((link, depth + 1)): the new entry goes to the back
frontier_append(q, e) == Append(q, e)

\* download_pdf: saved, a RequestException of the GET or of raise_for_status,
\* a RequestException of iter_content once the file is open, or an OSError
\* of makedirs or open
DownloadOutcomes == {"saved", "request_error", "stream_error", "os_error"}

\* the record of one download_pdf call: the target is chosen before the GET
DocGet(u, d, g, fs) ==
  [depth |-> d, outcome |-> g,
   target |-> ensure_unique_path(fs, fname(u.path)), before |-> fs]

\* the output directory after the call: open(target, "wb") creates the file
FilesAfter(u, g, fs) ==
  IF g \in {"saved", "stream_error"}
  THEN fs \cup {ensure_unique_path(fs, fname(u.path))}
  ELSE fs

\* a request is issued: what it does to the pacing record
Paced(before) == before # "request"

\* ------------------------------------------------------------ the steps
\* one iteration of the while loop, up to the for loop
VisitPage ==
  /\ pc = "loop"
  /\ queued # <<>>
  /\ LET u == Head(queued)[1]
         d == Head(queued)[2]
     IN /\ queued' = Tail(queued)
        /\ pops' = [pops EXCEPT ![u] = @ + 1]
        /\ url' = u
        /\ depth' = d
        /\ IF already_seen(u)
           THEN UNCHANGED <<seen_pages, seen_adds, page_gets, last_net,
                            unpaced, links, pc>>
           ELSE /\ seen_pages' = seen_pages \cup {u}
                /\ seen_adds' = [seen_adds EXCEPT ![u] = @ + 1]
                /\ IF ~page_in_scope(u) \/ ~allowed_by_robots(u)
                   THEN UNCHANGED <<page_gets, last_net, unpaced, links, pc>>
                   ELSE \E o \in PageOutcomes(u) :
                          /\ page_gets' = [page_gets EXCEPT
                               ![u] = Append(@, [depth |-> d, ok |-> o.ok])]
                          /\ unpaced' = (unpaced \/ ~Paced(last_net))
                          /\ last_net' = IF o.ok THEN "sleep" ELSE "request"
                          /\ links' = o.links
                          /\ pc' = IF o.links = {} THEN "loop" ELSE "links"
  /\ UNCHANGED <<found_pdfs, downloaded, checked_links, head_probes, doc_gets,
                 pdf_hits, summary, params, pure, http, naming, files, old_files>>

\* one iteration of the for loop over the page's links
ProcessLink ==
  /\ pc = "links"
  /\ \E link \in links : \E h \in HeadOutcomes(link), g \in DownloadOutcomes :
       LET ext == looks_like_pdf(link)
           isPdf == ext \/ h = "pdf"
           dl == isPdf /\ allowed_by_robots(link) /\ is_new_pdf(link)
           enq == (~isPdf) /\ may_enqueue(link, depth)
           beforeGet == IF ext THEN last_net ELSE "request"
           rest == links \ {link}
       IN /\ checked_links' = checked_links + 1
          /\ head_probes' = IF ext THEN head_probes ELSE head_probes \cup {link}
          /\ found_pdfs' = IF dl THEN found_pdfs \cup {link} ELSE found_pdfs
          /\ doc_gets' = IF dl THEN [doc_gets EXCEPT ![link] =
                                        Append(@, DocGet(link, depth, g, files))]
                                ELSE doc_gets
          /\ files' = IF dl THEN FilesAfter(link, g, files) ELSE files
          /\ pdf_hits' = IF isPdf /\ allowed_by_robots(link)
                          THEN [pdf_hits EXCEPT ![link] = @ \cup {url}]
                          ELSE pdf_hits
          /\ downloaded' = IF dl /\ g = "saved" THEN downloaded + 1 ELSE downloaded
          /\ unpaced' = \/ unpaced
                        \/ (~ext) /\ ~Paced(last_net)
                        \/ dl /\ ~Paced(beforeGet)
          /\ last_net' = IF dl THEN (IF g = "saved" THEN "sleep" ELSE "request")
                                ELSE (IF ext THEN last_net ELSE "request")
          /\ queued' = IF enq THEN frontier_append(queued, <<link, depth + 1>>)
                              ELSE queued
          /\ links' = rest
          /\ pc' = IF dl /\ g = "os_error" THEN "crashed"
                    ELSE IF rest = {} THEN "loop" ELSE "links"
  /\ UNCHANGED <<seen_pages, url, depth, pops, seen_adds, page_gets, summary,
                 params, pure, http, naming, old_files>>

\* the frontier is empty: the summary is printed
PrintSummary ==
  /\ pc = "loop"
  /\ queued = <<>>
  /\ pc' = "done"
  /\ summary' = [pages |-> Cardinality(seen_pages), links |-> checked_links,
                 pdfs |-> Cardinality(found_pdfs), downloaded |-> downloaded,
                 printed |-> TRUE]
  /\ UNCHANGED <<seen_pages, queued, found_pdfs, downloaded, checked_links,
                 url, depth, links, pops, seen_adds, page_gets, head_probes,
                 doc_gets, pdf_hits, last_net, unpaced, params, pure, http, naming,
                 files, old_files>>

\* ------------------------------------ a scope predicate applied on its own
PathChars == {"/", "a", "b"}

\* the path of a URL that has a host is empty or begins with a slash
Paths ==
  {p \in UNION {[1..n -> PathChars] : n \in 0..MaxPathLen} :
     Len(p) = 0 \/ p[1] = "/"}

PathURLs == {Url(n, p) : n \in {"site", "other"}, p \in Paths}

BoolStr(b) == IF b THEN "true" ELSE "false"

PathInit ==
  /\ max_depth = 0
  /\ same_path_only = TRUE
  /\ rp = load_robots([kind |-> "parsed", disallow |-> {}, crawl_delay |-> <<>>])
  /\ site = "any"
  /\ CrawlStart
  /\ HttpIdle
  /\ NamingIdle
  /\ arg_url \in PathURLs
  /\ arg_base \in PathURLs
  /\ result = "unset"

ApplyUnderBasePath ==
  /\ result = "unset"
  /\ result' = BoolStr(is_under_base_path(arg_url, arg_base))
  /\ UNCHANGED <<params, pc, seen_pages, queued, found_pdfs, downloaded,
                 checked_links, url, depth, links, pops, seen_adds, page_gets,
                 head_probes, doc_gets, pdf_hits, last_net, unpaced,
                 summary, arg_url, arg_base, http, naming, files, old_files>>

PathNext == ApplyUnderBasePath

PathSpec == PathInit /\ [][PathNext]_vars

\* ------------------------------- one request followed through its retries
\* Retry(total=5, status_forcelist=..., allowed_methods=...) of build_session
retry_total == 5

status_forcelist == {429, 500, 502, 503, 504}

allowed_methods == {"GET", "HEAD"}

\* what one attempt can meet: a status, or 0 for a connection-level error
Responses == {0, 200, 404, 429, 503}

\* long enough to answer one attempt more than the retries allow
ScriptLen == retry_total + 2

\* every status in the force list retried whatever the method
is_retry_never(method, status) == FALSE

\* Retry.is_retry: the response is answered by another attempt
is_retry(method, status) ==
  /\ method \in allowed_methods
  /\ status \in status_forcelist

\* the counter allowed to fall one further
is_exhausted_late(left) == left < 0 - 1

\* Retry.is_exhausted: the decremented total has fallen below zero
is_exhausted(left) == left < 0

RetryInit ==
  /\ max_depth = 0
  /\ same_path_only = TRUE
  /\ rp = load_robots([kind |-> "parsed", disallow |-> {}, crawl_delay |-> <<>>])
  /\ site = "any"
  /\ CrawlStart
  /\ PureIdle
  /\ NamingIdle
  /\ http_method \in allowed_methods
  /\ http_script \in [1..ScriptLen -> Responses]
  /\ http_log = <<>>
  /\ retries_left = retry_total
  /\ http_result = "pending"

\* one attempt of the adapter: a connection error or a response to retry
\* uses up one of the total and ends in an exception when none is left;
\* any other response is returned, and fetch_html and download_pdf call
\* raise_for_status on it while head_is_pdf reads its headers
HttpAttempt ==
  /\ http_result = "pending"
  /\ Len(http_log) < Len(http_script)
  /\ LET r == http_script[Len(http_log) + 1]
         again == r = 0 \/ is_retry(http_method, r)
     IN /\ http_log' = Append(http_log, r)
        /\ retries_left' = IF again THEN retries_left - 1 ELSE retries_left
        /\ http_result' =
             IF again
             THEN (IF is_exhausted(retries_left - 1) THEN "error" ELSE "pending")
             ELSE (IF http_method = "GET" /\ r >= 400 THEN "error" ELSE "ok")
  /\ UNCHANGED <<params, pc, seen_pages, queued, found_pdfs, downloaded,
                 checked_links, url, depth, links, pops, seen_adds, page_gets,
                 head_probes, doc_gets, pdf_hits, last_net, unpaced, summary,
                 pure, http_method, http_script, naming, files, old_files>>

RetryNext == HttpAttempt

RetrySpec == RetryInit /\ [][RetryNext]_vars

\* ---------------------------------- sanitize_filename applied on its own
NameChars == {"a", ".", " ", "(", ":", "/"}

\* n characters of padding
Fill(n) == [i \in 1..n |-> "a"]

\* names of up to MaxNameLen characters, alone or behind padding that brings
\* them to the lengths around the cut
NameInputs ==
  {Fill(n) \o t :
     n \in {0} \cup ((max_name_len - MaxNameLen - 1)..(max_name_len + 1)),
     t \in UNION {[1..k -> NameChars] : k \in 0..MaxNameLen}}

SanitizeInit ==
  /\ max_depth = 0
  /\ same_path_only = TRUE
  /\ rp = load_robots([kind |-> "parsed", disallow |-> {}, crawl_delay |-> <<>>])
  /\ site = "any"
  /\ CrawlStart
  /\ PureIdle
  /\ HttpIdle
  /\ name_in \in NameInputs
  /\ name_out = <<"?">>
  /\ name_again = <<"?">>

ApplySanitize ==
  /\ name_out = <<"?">>
  /\ name_out' = sanitize_filename(name_in)
  /\ name_again' = sanitize_filename(sanitize_filename(name_in))
  /\ UNCHANGED <<params, pc, seen_pages, queued, found_pdfs, downloaded,
                 checked_links, url, depth, links, pops, seen_adds, page_gets,
                 head_probes, doc_gets, pdf_hits, last_net, unpaced, summary,
                 pure, http, name_in, files, old_files>>

SanitizeNext == ApplySanitize

SanitizeSpec == SanitizeInit /\ [][SanitizeNext]_vars

\* ------------------------------------- download_pdf followed on its own
\* the scheduler is past the found_pdfs test with one new document after
\* another, in an output directory an earlier run may have filled
DownloadInit ==
  /\ max_depth = 0
  /\ same_path_only = TRUE
  /\ rp = load_robots([kind |-> "parsed", disallow |-> {}, crawl_delay |-> <<>>])
  /\ site = "any"
  /\ pc = "download"
  /\ CrawlFresh
  /\ old_files \in SUBSET OldNames
  /\ files = old_files
  /\ PureIdle
  /\ HttpIdle
  /\ NamingIdle

\* found_pdfs.add(link) and the try around download_pdf
DownloadCall ==
  /\ pc = "download"
  /\ Cardinality(found_pdfs) < MaxDownloads
  /\ \E u \in DlURLs \ found_pdfs : \E g \in DownloadOutcomes :
       /\ found_pdfs' = found_pdfs \cup {u}
       /\ doc_gets' = [doc_gets EXCEPT ![u] = Append(@, DocGet(u, depth, g, files))]
       /\ files' = FilesAfter(u, g, files)
       /\ downloaded' = IF g = "saved" THEN downloaded + 1 ELSE downloaded
       /\ unpaced' = (unpaced \/ ~Paced(last_net))
       /\ last_net' = IF g = "saved" THEN "sleep" ELSE "request"
       /\ pc' = IF g = "os_error" THEN "crashed" ELSE "download"
  /\ UNCHANGED <<seen_pages, queued, checked_links, url, depth, links, pops,
                 seen_adds, page_gets, head_probes, pdf_hits, summary, params,
                 pure, http, naming, old_files>>

DownloadNext == DownloadCall

DownloadSpec == DownloadInit /\ [][DownloadNext]_vars

\* ------------------------------------------------------------ the crawl
\* a run against the site of the end-to-end scenario, under any options and
\* any robots.txt, into an empty output directory
ScenarioInit ==
  /\ max_depth \in 0..MaxDepthBound
  /\ same_path_only \in BOOLEAN
  /\ rp \in RobotPolicies
  /\ site = "scenario"
  /\ CrawlStart
  /\ PureIdle
  /\ HttpIdle
  /\ NamingIdle

Next == VisitPage \/ ProcessLink \/ PrintSummary

Spec == Init /\ [][Next]_vars

\* the loop runs on: the interpreter takes the next step whenever there is one
FairSpec == Spec /\ WF_vars(Next)

ScenarioSpec == ScenarioInit /\ [][Next]_vars

\* ================================================================ claims

\* C1: every document URL is requested by download_pdf at most once in a
\* run, however many pages link to it and whether or not the first attempt
\* succeeded, and the Downloaded counter never exceeds the number of found
\* documents.
C1_DownloadAtMostOnce ==
  /\ \A u \in URLs : Len(doc_gets[u]) <= 1
  /\ downloaded <= Cardinality(found_pdfs)

\* DocA was linked from two pages at different depths, its one download
\* failed, and it was not requested again
C1_Witness ==
  /\ {start, PageP} \subseteq pdf_hits[DocA]
  /\ page_gets[start][1].depth # page_gets[PageP][1].depth
  /\ Len(doc_gets[DocA]) = 1
  /\ doc_gets[DocA][1].outcome = "request_error"
  /\ downloaded = 0

\* C2: every page URL is added to seen_pages at most once and requested by
\* fetch_html at most once, failed fetches included.
C2_VisitAtMostOnce ==
  \A u \in URLs : seen_adds[u] <= 1 /\ Len(page_gets[u]) <= 1

\* PageO came off the frontier twice; it was marked and fetched once, and
\* that fetch failed
C2_Witness ==
  /\ pops[PageO] = 2
  /\ seen_adds[PageO] = 1
  /\ Len(page_gets[PageO]) = 1
  /\ ~page_gets[PageO][1].ok

\* C3 (as stated): popleft returns an entry with URL U at most once.
C3_DequeuedOnce == \A u \in URLs : pops[u] <= 1

\* C3 (amended): a URL may come off the frontier more than once, but every
\* dequeue of it after the first is skipped: it changes nothing but the
\* frontier, and the loop goes on to the next entry.
C3_LaterDequeueSkipped ==
  [][\A u \in URLs :
       (pops'[u] > pops[u] /\ pops[u] >= 1) =>
         /\ pc' = "loop"
         /\ UNCHANGED <<seen_pages, seen_adds, page_gets, found_pdfs, downloaded,
                        checked_links, head_probes, doc_gets, last_net, links>>]_vars

\* PageO came off the frontier a second time
C3_Witness == pops[PageO] >= 2 /\ pc = "loop"

\* C4: for every link graph and max_depth the crawl eventually finds the
\* frontier empty and prints the summary.
C4_ReachesSummary == <>(pc = "done")

\* C5: every frontier entry and every fetched page has depth <= max_depth; a
\* page link found at depth d is enqueued only if d < max_depth, and then at
\* depth d + 1; a document link is marked found and downloaded at whatever
\* depth its page is; with max_depth = 0 only the seed is fetched and only
\* documents linked from it are found.
C5_DepthState ==
  /\ \A i \in DOMAIN queued : queued[i][2] <= max_depth
  /\ \A u \in URLs : \A i \in DOMAIN page_gets[u] :
       page_gets[u][i].depth <= max_depth
  /\ max_depth = 0 =>
       /\ \A u \in URLs : page_gets[u] # <<>> => u = start
       /\ \A u \in found_pdfs : pdf_hits[u] = {start}

C5_DepthStep ==
  /\ (pc = "links" /\ queued' # queued) =>
       /\ depth < max_depth
       /\ \E l \in links : queued' = Append(queued, <<l, depth + 1>>)
  /\ \A l \in URLs :
       (pc = "links" /\ l \notin found_pdfs /\ url \in pdf_hits'[l]
          /\ url \notin pdf_hits[l]) =>
         /\ l \in found_pdfs'
         /\ Len(doc_gets'[l]) = Len(doc_gets[l]) + 1
         /\ doc_gets'[l][Len(doc_gets'[l])].depth = depth

C5_DepthLimit == [](C5_DepthState) /\ [][C5_DepthStep]_vars

\* a page at the depth limit was fetched, a document linked from it was
\* downloaded, and none of its links is in the frontier
C5_Witness ==
  /\ max_depth >= 1
  /\ pc = "loop"
  /\ \E u \in found_pdfs : doc_gets[u][1].depth = max_depth
  /\ \E u \in URLs : page_gets[u] # <<>> /\ page_gets[u][1].depth = max_depth
                        /\ page_gets[u][1].ok

\* C6: no request of any kind (page GET, HEAD probe, document GET) goes to a
\* URL that allowed_by_robots rejects.
C6_NoRequestToDisallowed ==
  \A u \in URLs :
    ~allowed_by_robots(u) =>
      page_gets[u] = <<>> /\ u \notin head_probes /\ doc_gets[u] = <<>>

\* C7: the summary's Pages visited and PDFs found count no URL that
\* allowed_by_robots rejects.
C7_SummaryExcludesDisallowed ==
  summary.printed =>
    /\ summary.pages = Cardinality({u \in seen_pages : allowed_by_robots(u)})
    /\ summary.pdfs = Cardinality({u \in found_pdfs : allowed_by_robots(u)})

\* C8: every page fetch and every document download targets a URL of the
\* start URL's host and, with same_path_only, under its path; a document
\* link outside that scope is never marked found.
C8_DocsInScope ==
  \A u \in URLs :
    (page_gets[u] # <<>> \/ doc_gets[u] # <<>> \/ u \in found_pdfs) =>
      page_in_scope(u)

\* the base path is a prefix of the path that ends where a segment ends
SegmentPrefix(path, base) ==
  /\ StartsWith(path, base)
  /\ \/ Len(base) = 0
     \/ Len(path) = Len(base)
     \/ base[Len(base)] = "/"
     \/ path[Len(base) + 1] = "/"

\* C9: is_under_base_path(U, B) is true exactly when U and B have the same
\* host and B's path is a prefix of U's path made of whole segments.
C9_SegmentPrefix ==
  result # "unset" =>
    (result = "true" <=>
       (arg_url.netloc = arg_base.netloc
          /\ SegmentPrefix(arg_url.path, arg_base.path)))

\* C10: between any two successive requests of the crawl loop, whether the
\* earlier one succeeded or failed, the loop sleeps for the enforced delay.
C10_PausedBetweenRequests == ~unpaced

\* a request of the crawl loop ended in a RequestException
NetworkFailureSeen ==
  \/ \E u \in URLs : \E i \in DOMAIN page_gets[u] : ~page_gets[u][i].ok
  \/ \E u \in URLs : \E i \in DOMAIN doc_gets[u] :
       doc_gets[u][i].outcome \in {"request_error", "stream_error"}

C11_FailureSteps ==
  /\ \A u \in URLs :
       (Len(page_gets'[u]) > Len(page_gets[u])
          /\ ~page_gets'[u][Len(page_gets'[u])].ok) =>
         /\ links' = {}
         /\ queued' = Tail(queued)
         /\ u \in seen_pages'
         /\ pc' = "loop"
  /\ \A u \in URLs :
       (Len(doc_gets'[u]) > Len(doc_gets[u])
          /\ doc_gets'[u][Len(doc_gets'[u])].outcome
               \in {"request_error", "stream_error"}) =>
         /\ downloaded' = downloaded
         /\ u \in found_pdfs'
         /\ links' = links \ {u}
         /\ pc' = IF links' = {} THEN "loop" ELSE "links"

\* C11: a failed page fetch leaves the page marked, without links, and the
\* loop at the next frontier entry; a failed download leaves Downloaded
\* unchanged, the document found, and the loop at the page's next link; and
\* after either the run still reaches the summary.
C11_FailuresIsolated ==
  /\ [][C11_FailureSteps]_vars
  /\ [](NetworkFailureSeen => <>(pc = "done"))

\* C12: an OSError of makedirs/open/write in download_pdf ends that one
\* download only: the loop goes on and the summary is reached.
C12_OsErrorIsolated ==
  (\E u \in URLs : \E i \in DOMAIN doc_gets[u] :
     doc_gets[u][i].outcome = "os_error") => pc # "crashed"

\* C13: when the fetch or the parse of robots.txt raises in load_robots, the
\* policy permits every URL, so the seed is still crawled, and it adds no
\* delay: the enforced delay is the configured one.
C13_FailOpen ==
  (~rp.read /\ pc = "done") =>
    /\ \A u \in URLs : allowed_by_robots(u)
    /\ page_gets[start] # <<>>
    /\ enforced_delay = delay

\* the script begins with k force-list statuses and then a 200
RetryableThenOk(k) ==
  /\ \A i \in 1..k : http_script[i] \in status_forcelist
  /\ http_script[k + 1] = 200

\* C14: a request whose attempts meet k retryable statuses, k within the
\* retry budget, and then a success status ends as one success, after k + 1
\* attempts: the caller sees one successful fetch and no failure.
C14_RetryTransparent ==
  \A k \in 0..retry_total :
    (http_result \notin {"idle", "pending"} /\ RetryableThenOk(k)) =>
      http_result = "ok" /\ Len(http_log) = k + 1

\* 503, 503, 200 ended as one success
C14_Witness ==
  /\ http_result = "ok"
  /\ http_log = <<503, 503, 200>>

\* C19 (as stated): a request makes at most 5 attempts in total.
C19_FiveAttempts == Len(http_log) <= 5

\* C19 (amended): a request makes at most 6 attempts in total, the first
\* and the 5 retries of Retry(total=5), and one that met a retryable status
\* or a connection error at each of them ends as a failure after exactly 6.
C19_SixAttempts ==
  /\ Len(http_log) <= retry_total + 1
  /\ (http_result \notin {"idle", "pending"}
        /\ \A i \in 1..(retry_total + 1) :
             http_script[i] = 0 \/ http_script[i] \in status_forcelist) =>
       http_result = "error" /\ Len(http_log) = retry_total + 1

\* six attempts met 503 and the request ended as a failure
C19_Witness ==
  /\ http_result = "error"
  /\ http_log = <<503, 503, 503, 503, 503, 503>>

\* C17: sanitizing a sanitized name changes nothing, and a sanitized name
\* has at most 180 characters, all of them word characters, hyphen, period,
\* parentheses, plus or white space.
C17_SanitizeIdempotent ==
  name_out # <<"?">> =>
    /\ name_again = name_out
    /\ Len(name_out) <= max_name_len
    /\ \A i \in DOMAIN name_out : name_out[i] \in KeptChars

\* a name one character too long, ending in characters outside the list,
\* was cut and rewritten
C17_Witness ==
  /\ Len(name_in) = max_name_len + 1
  /\ name_in[Len(name_in)] = ":"
  /\ Len(name_out) = max_name_len
  /\ name_out[Len(name_out)] = "_"
  /\ name_again = name_out

\* ------------------------------------------------------------ file names
\* the download_pdf calls that created a file
Created == {u \in DlURLs : /\ doc_gets[u] # <<>>
                            /\ doc_gets[u][1].outcome \in {"saved", "stream_error"}}

\* the name and its numbered variants
Family(name) == {name} \cup {candidate(name, k) : k \in 1..(MaxDownloads + 2)}

\* the successful downloads of the same file name that came before the entry:
\* their files were in the directory when its target was chosen
SavedBefore(u) ==
  {v \in DlURLs \ {u} : /\ fname(v.path) = fname(u.path)
                        /\ doc_gets[v] # <<>>
                        /\ doc_gets[v][1].outcome = "saved"
                        /\ doc_gets[v][1].target \in doc_gets[u][1].before}

\* C15 as stated: of the successful downloads whose URLs sanitize to the same
\* file name, the second is the one named with " (1)" before the extension
C15_SecondNamedOne ==
  \A u \in DlURLs :
    (/\ doc_gets[u] # <<>>
     /\ doc_gets[u][1].outcome = "saved"
     /\ Cardinality(SavedBefore(u)) = 1) =>
       doc_gets[u][1].target = candidate(fname(u.path), 1)

\* C15: the target of a download never exists when it is chosen and is the
\* first free of name, name (1), name (2), ...; the downloads that create a
\* file create distinct files; and where the directory held no file of that
\* name family at the start and no download of the name broke off mid-stream,
\* the first successful download is named plainly and the k-th, k > 1, with
\* " (k-1)" before the extension
C15_NoOverwrite ==
  /\ \A u \in DlURLs : doc_gets[u] # <<>> =>
       LET e == doc_gets[u][1]
           n == fname(u.path)
       IN /\ e.target \notin e.before
          /\ \/ e.target = n
             \/ \E k \in 1..(MaxDownloads + 2) :
                  /\ e.target = candidate(n, k)
                  /\ n \in e.before
                  /\ \A j \in 1..(k - 1) : candidate(n, j) \in e.before
          /\ e.outcome \in {"saved", "stream_error"} => e.target \in files
          /\ (/\ e.outcome = "saved"
              /\ old_files \cap Family(n) = {}
              /\ \A v \in DlURLs : (fname(v.path) = n /\ doc_gets[v] # <<>>) =>
                                     doc_gets[v][1].outcome # "stream_error") =>
               e.target = IF SavedBefore(u) = {} THEN n
                          ELSE candidate(n, Cardinality(SavedBefore(u)))
  /\ \A c, d \in Created : c # d => doc_gets[c][1].target # doc_gets[d][1].target
  /\ old_files \subseteq files

\* three documents of the same file name saved next to an older file of
\* that name, and two names that agree only after sanitizing saved too
C15_Witness ==
  /\ doc_gets[DocA] # <<>> /\ doc_gets[DocA2] # <<>>
  /\ doc_gets[DocA][1].outcome = "saved"
  /\ doc_gets[DocA2][1].outcome = "saved"
  /\ doc_gets[DocA][1].target = fname(DocA.path)
  /\ doc_gets[DocA2][1].target = candidate(fname(DocA.path), 1)
  /\ doc_gets[DocC] # <<>> /\ doc_gets[DocC][1].outcome = "saved"
  /\ DocU \notin found_pdfs

\* C16: a document whose file was already in the output directory when the
\* run began is not requested and no further copy of it is written
C16_ExistingSkipped ==
  \A u \in DlURLs :
    fname(u.path) \in old_files =>
      /\ doc_gets[u] = <<>>
      /\ candidate(fname(u.path), 1) \in files => candidate(fname(u.path), 1) \in old_files


\* ------------------------------------------------------------ traversal order
\* the frontier's depths never fall from front to back and span at most 1
FrontierOrdered ==
  /\ \A i, j \in DOMAIN queued : i <= j => queued[i][2] <= queued[j][2]
  /\ \A i, j \in DOMAIN queued : queued[j][2] - queued[i][2] \in {0 - 1, 0, 1}

\* a dequeue never goes back to a smaller depth; a page is fetched at its
\* first dequeue, at a depth no entry of it still waiting is below; and a
\* link is enqueued only while it has not been dequeued, so no entry of a
\* page is ever made after its fetch
FrontierSteps ==
  /\ pops' # pops => depth' >= depth
  /\ \A u \in URLs :
       page_gets'[u] # page_gets[u] =>
         /\ pops[u] = 0
         /\ page_gets'[u][Len(page_gets'[u])].depth = Head(queued)[2]
         /\ \A i \in DOMAIN queued : queued[i][1] = u => queued[i][2] >= Head(queued)[2]
  /\ Len(queued') > Len(queued) =>
       /\ pops[queued'[Len(queued')][1]] = 0
       /\ queued'[Len(queued')][2] = depth + 1
       /\ \A i \in DOMAIN queued : queued'[i] = queued[i]

\* C20: in every reachable state the frontier's entries are in non-decreasing
\* depth order and their depths differ by at most 1, pages are dequeued in
\* non-decreasing depth order, and every fetched page is fetched at the
\* smallest depth at which it was ever enqueued
C20_BreadthFirst == []FrontierOrdered /\ [][FrontierSteps]_vars

\* a page of depth 2 waits behind a page of depth 1 while links are processed
C20_Witness ==
  /\ Len(queued) >= 2
  /\ queued[1][2] = 1
  /\ queued[Len(queued)][2] = 2
  /\ pc = "links"


\* ------------------------------------------------------------ the scenario
\* the options of the scenario, robots.txt read and disallowing nothing, and
\* every page GET and every document GET of the run succeeded
AllSucceeded ==
  /\ max_depth = 2
  /\ same_path_only
  /\ rp.read
  /\ rp.disallow = {}
  /\ \A u \in AllURLs :
       /\ \A i \in DOMAIN page_gets[u] : page_gets[u][i].ok
       /\ \A i \in DOMAIN doc_gets[u] : doc_gets[u][i].outcome = "saved"

\* C18: on the scenario site with max_depth = 2, same_path_only = true and
\* all requests succeeding, the summary reports 2 pages visited, 2 documents
\* found and 2 downloaded, and no request of any kind is sent to the
\* external-host URL
C18_Scenario ==
  (pc = "done" /\ AllSucceeded) =>
    /\ summary.pages = 2
    /\ summary.pdfs = 2
    /\ summary.downloaded = 2
    /\ PageX \notin head_probes
    /\ page_gets[PageX] = <<>>
    /\ doc_gets[PageX] = <<>>

\* the counts of C18 hold; the HEAD request of head_is_pdf is what reaches
\* the external-host URL
C18_Counts ==
  (pc = "done" /\ AllSucceeded) =>
    /\ summary.pages = 2
    /\ summary.pdfs = 2
    /\ summary.downloaded = 2
    /\ page_gets[PageX] = <<>>
    /\ doc_gets[PageX] = <<>>
    /\ PageX \in head_probes

====
